---- MODULE Spec2Model ----
(***************************************************************************)
(* Attolytics: schema-driven type conversion (types.rs), schema load       *)
(* (schema.rs), catalog reconciliation and event insertion (db.rs) and the *)
(* events_post request handler (main.rs).                                  *)
(*                                                                         *)
(* Integers wider than the model checker's 32-bit integers are kept as two *)
(* limbs: the pair hi, lo stands for hi * 2^31 + lo with 0 <= lo < 2^31,   *)
(* so the i64 -> i32 narrowing of types.rs keeps its real width.           *)
(***************************************************************************)
EXTENDS Integers, Sequences, FiniteSets, TLC

VARIABLES
    cKey, cType, cJson, cRequired, cResult,  \* one call of Type::json_to_sql
    yaml, loaded, loadedCfg,                 \* one configuration text and its loads
    config, catalog, reconResult, created, checked,  \* the store's catalog and create_tables
    store,    \* the committed rows, oldest first
    pool,     \* connections checked out of the pool
    req       \* per request slot: the request and the handler's position

convVars == <<cKey, cType, cJson, cRequired, cResult>>
loadVars == <<yaml, loaded, loadedCfg>>
reconVars == <<config, catalog, reconResult, created, checked>>
ingestVars == <<store, pool, req>>
vars == <<convVars, loadVars, reconVars, ingestVars>>

(***************************************************************************)
(* serde_json::Value, by shape.  Every value is a record of the same       *)
(* fields: k the shape, b a boolean, hi/lo the limbs of an integer (or of  *)
(* the truncated part of a float), n the fraction of a float in signed     *)
(* nanos (same sign as the number), s a string.                            *)
(***************************************************************************)
J(k, b, hi, lo, n, s) == [k |-> k, b |-> b, hi |-> hi, lo |-> lo, n |-> n, s |-> s]
JNull == J("null", FALSE, 0, 0, 0, "")
JBool(b) == J("bool", b, 0, 0, 0, "")
JInt(hi, lo) == J("int", FALSE, hi, lo, 0, "")
JFloat(hi, lo, n) == J("float", FALSE, hi, lo, n, "")
JStr(s) == J("string", FALSE, 0, 0, 0, s)
JArray == J("array", FALSE, 0, 0, 0, "")
JObject == J("object", FALSE, 0, 0, 0, "")

\* Option<T>: <<>> is None, <<x>> is Some(x).
None == <<>>
Some(x) == <<x>>

as_bool(json) == IF json.k = "bool" THEN Some(json.b) ELSE None
as_i64(json) == IF json.k = "int" THEN Some([hi |-> json.hi, lo |-> json.lo]) ELSE None
as_f64(json) ==
    IF json.k \in {"int", "float"}
    THEN Some([hi |-> json.hi, lo |-> json.lo, n |-> json.n])
    ELSE None
as_str(json) == IF json.k = "string" THEN Some(json.s) ELSE None
is_number(json) == json.k \in {"int", "float"}
is_string(json) == json.k = "string"

(***************************************************************************)
(* Values handed to the store (Box<ToSql>): ty is the native type the      *)
(* value is encoded as, or "null" for SQL NULL.                            *)
(***************************************************************************)
Sql(ty, b, hi, lo, n, s) == [ty |-> ty, b |-> b, hi |-> hi, lo |-> lo, n |-> n, s |-> s]
SqlNull == Sql("null", FALSE, 0, 0, 0, "")
NoVal == Sql("none", FALSE, 0, 0, 0, "")

Types == {"Bool", "I32", "I64", "F32", "F64", "String", "Timestamp"}

\* Type::postgres_type followed by postgres::types::Type::name.
postgres_type_name(self) ==
    CASE self = "Bool" -> "bool"
      [] self = "I32" -> "int4"
      [] self = "I64" -> "int8"
      [] self = "F32" -> "float4"
      [] self = "F64" -> "float8"
      [] self = "String" -> "varchar"
      [] self = "Timestamp" -> "timestamptz"

\* i32::try_from(i).ok(): an i64 fits when it lies in -2^31 .. 2^31 - 1.
I32TryFrom(i) ==
    IF i.hi = 0 THEN Some(i.lo)
    ELSE IF i.hi = -1 THEN Some((i.lo - 1073741824) - 1073741824)
    ELSE None

\* ToSql of bool, i32, i64, f32 (f as f32), f64, String, DateTime.
ToSqlBool(b) == Sql("bool", b, 0, 0, 0, "")
ToSqlI32(v) == Sql("int4", FALSE, 0, v, 0, "")
ToSqlI64(i) == Sql("int8", FALSE, i.hi, i.lo, 0, "")
ToSqlF32(f) == Sql("float4", FALSE, f.hi, f.lo, f.n, "")
ToSqlF64(f) == Sql("float8", FALSE, f.hi, f.lo, f.n, "")
ToSqlString(s) == Sql("varchar", FALSE, 0, 0, 0, s)
ToSqlDateTime(t) == Sql("timestamptz", FALSE, t.hi, t.lo, t.n, "")
\* ToSql of Option<i32>: None is written as NULL.
ToSqlOptionI32(o) == IF Len(o) = 0 THEN SqlNull ELSE ToSqlI32(o[1])

\* Result<Box<ToSql>, ConversionError>; "panic" is an unwinding panic.
Ok(val) == [tag |-> "Ok", key |-> "", val |-> val]
MissingValue(key) == [tag |-> "MissingValue", key |-> key, val |-> NoVal]
TimestampFormat == [tag |-> "TimestampFormat", key |-> "", val |-> NoVal]
Panic == [tag |-> "panic", key |-> "", val |-> NoVal]
NoResult == [tag |-> "none", key |-> "", val |-> NoVal]

\* option is Option<encoded T>; T itself may be an Option (see I32).
unwrap_if_required(key, option, required) ==
    IF required
    THEN IF Len(option) = 0 THEN MissingValue(key) ELSE Ok(option[1])
    ELSE Ok(IF Len(option) = 0 THEN SqlNull ELSE option[1])

(***************************************************************************)
(* json_to_date_time.  NaiveDateTime::from_timestamp panics when the       *)
(* seconds are outside chrono's range or the nanoseconds are not below     *)
(* 2 * 10^9.  A negative fraction makes (1e9 * fract) as u32 an            *)
(* out-of-range float cast: it ends as 0 (saturating cast) or as a wrapped *)
(* value, which is not below 2 * 10^9.                                     *)
(***************************************************************************)
TsMax == [hi |-> 3823, lo |-> 468426495]      \*  8210298412799
TsMin == [hi |-> -3882, lo |-> 1898670336]    \* -8334632851200
WrappedNsecs == 2147483647
LimbLE(a, b) == a.hi < b.hi \/ (a.hi = b.hi /\ a.lo <= b.lo)
LimbDec(a) == IF a.lo = 0 THEN [hi |-> a.hi - 1, lo |-> 2147483647]
              ELSE [hi |-> a.hi, lo |-> a.lo - 1]
from_timestamp_valid(secs, nsecs) ==
    LimbLE(TsMin, secs) /\ LimbLE(secs, TsMax) /\ nsecs < 2000000000

\* DateTime::parse_from_rfc2822 on the strings of the model.
parse_from_rfc2822(s) ==
    IF s = "Tue, 01 Sep 2020 00:00:00 +0000"
    THEN Some([hi |-> 0, lo |-> 1598918400, n |-> 0])
    ELSE None

DtOk(opt) == [tag |-> "Ok", opt |-> opt]
DtErr(tag) == [tag |-> tag, opt |-> None]

\* The set of outcomes the call can have.
json_to_date_time(json) ==
    IF is_number(json) THEN
        LET f == as_f64(json)[1]
            trunc == [hi |-> f.hi, lo |-> f.lo]
            secs == IF f.n < 0 THEN LimbDec(trunc) ELSE trunc
            nsecs == IF f.n >= 0 THEN {f.n} ELSE {0, WrappedNsecs}
        IN { IF from_timestamp_valid(secs, ns)
             THEN DtOk(Some([hi |-> secs.hi, lo |-> secs.lo, n |-> ns]))
             ELSE DtErr("panic") : ns \in nsecs }
    ELSE IF is_string(json) THEN
        LET p == parse_from_rfc2822(as_str(json)[1])
        IN { IF Len(p) = 0 THEN DtErr("TimestampFormat") ELSE DtOk(p) }
    ELSE { DtOk(None) }

MapOpt(o, F(_)) == IF Len(o) = 0 THEN None ELSE Some(F(o[1]))
I32Inner(i) == ToSqlOptionI32(I32TryFrom(i))

\* Type::json_to_sql: the set of outcomes of one call.
json_to_sql(self, key, json, required) ==
    CASE self = "Bool" ->
            { unwrap_if_required(key, MapOpt(as_bool(json), ToSqlBool), required) }
      [] self = "I32" ->
            { unwrap_if_required(key, MapOpt(as_i64(json), I32Inner), required) }
      [] self = "I64" ->
            { unwrap_if_required(key, MapOpt(as_i64(json), ToSqlI64), required) }
      [] self = "F32" ->
            { unwrap_if_required(key, MapOpt(as_f64(json), ToSqlF32), required) }
      [] self = "F64" ->
            { unwrap_if_required(key, MapOpt(as_f64(json), ToSqlF64), required) }
      [] self = "String" ->
            { unwrap_if_required(key, MapOpt(as_str(json), ToSqlString), required) }
      [] self = "Timestamp" ->
            { IF d.tag = "Ok"
              THEN unwrap_if_required(key, MapOpt(d.opt, ToSqlDateTime), required)
              ELSE IF d.tag = "TimestampFormat" THEN TimestampFormat ELSE Panic
              : d \in json_to_date_time(json) }

(***************************************************************************)
(* Schema model (schema.rs, config.rs).  A map is a function whose domain  *)
(* is its key set.  Deserialization leaves the #[serde(skip)] fields       *)
(* Table.name and App.app_id at their default, the empty string.           *)
(***************************************************************************)
Column(name, type_, header, required) ==
    [name |-> name, type_ |-> type_, header |-> header, required |-> required]
Table(name, columns) == [name |-> name, columns |-> columns]
App(app_id, secret_key, tables) ==
    [app_id |-> app_id, secret_key |-> secret_key,
     access_control_allow_origin |-> "*", tables |-> tables]
EmptyMap == [k \in {} |-> k]
NoSchema == [tables |-> EmptyMap, apps |-> EmptyMap]

\* Result<Schema, SchemaError> and Result<Config, ConfigError>.
LoadOk(schema) ==
    [tag |-> "Ok", schema |-> schema, app_id |-> "", table_name |-> "", actual |-> ""]
YamlParseError ==
    [tag |-> "YamlParseError", schema |-> NoSchema, app_id |-> "", table_name |-> "",
     actual |-> ""]
TableNotFound(app_id, table_name) ==
    [tag |-> "TableNotFound", schema |-> NoSchema, app_id |-> app_id,
     table_name |-> table_name, actual |-> ""]
WrongColumnType(actual) ==
    [tag |-> "WrongColumnType", schema |-> NoSchema, app_id |-> "", table_name |-> "",
     actual |-> actual]
NotLoaded ==
    [tag |-> "none", schema |-> NoSchema, app_id |-> "", table_name |-> "", actual |-> ""]

Min(S) == CHOOSE x \in S : \A y \in S : x <= y
Range(f) == {f[i] : i \in DOMAIN f}
\* Positions of the header-sourced columns whose type is not String.
WrongColumns(columns) ==
    {i \in 1..Len(columns) : Len(columns[i].header) > 0 /\ columns[i].type_ # "String"}
\* A reference check that finds every name present.
MissingTables_none(names, tables) == {}

\* Positions of the names of an application that are no key of the table map.
MissingTables(names, tables) ==
    {i \in 1..Len(names) : names[i] \notin DOMAIN tables}

NamedTables(tables) == [t \in DOMAIN tables |-> [tables[t] EXCEPT !.name = t]]
NamedApps(apps) == [a \in DOMAIN apps |-> [apps[a] EXCEPT !.app_id = a]]

\* Schema::from_yaml without its loop over the applications' table names.
Schema_from_yaml_unchecked(text) ==
    IF ~text.parses THEN {YamlParseError}
    ELSE LET tables == text.tables
             apps == text.apps
             wrong == {t \in DOMAIN tables : WrongColumns(tables[t].columns) # {}}
         IN IF wrong # {}
            THEN { WrongColumnType(
                     tables[t].columns[Min(WrongColumns(tables[t].columns))].type_)
                   : t \in wrong }
            ELSE { LoadOk([tables |-> NamedTables(tables), apps |-> NamedApps(apps)]) }

\* Schema::from_yaml: the set of results the call can have.  The two loops
\* walk a HashMap, whose order is arbitrary, and return at the first fault.
Schema_from_yaml(text) ==
    IF ~text.parses THEN {YamlParseError}
    ELSE LET tables == text.tables
             apps == text.apps
             wrong == {t \in DOMAIN tables : WrongColumns(tables[t].columns) # {}}
             dangling == {a \in DOMAIN apps : MissingTables(apps[a].tables, tables) # {}}
         IN IF wrong # {}
            THEN { WrongColumnType(
                     tables[t].columns[Min(WrongColumns(tables[t].columns))].type_)
                   : t \in wrong }
            ELSE IF dangling # {}
            THEN { TableNotFound(a,
                     apps[a].tables[Min(MissingTables(apps[a].tables, tables))])
                   : a \in dangling }
            ELSE { LoadOk([tables |-> NamedTables(tables), apps |-> NamedApps(apps)]) }

\* Config::from_yaml: the older loader, which knows no header-sourced column.
Config_from_yaml(text) ==
    IF ~text.parses THEN {YamlParseError}
    ELSE LET tables == text.tables
             apps == text.apps
             dangling == {a \in DOMAIN apps : MissingTables(apps[a].tables, tables) # {}}
         IN IF dangling # {}
            THEN { TableNotFound(a,
                     apps[a].tables[Min(MissingTables(apps[a].tables, tables))])
                   : a \in dangling }
            ELSE { LoadOk([tables |-> NamedTables(tables), apps |-> NamedApps(apps)]) }

(***************************************************************************)
(* The store's catalog and the reconciler (db.rs).  The catalog maps each  *)
(* visible table to its live columns (pg_attribute rows): name, type oid,  *)
(* attnotnull, atthasdef.  A table has no two live columns of one name.    *)
(***************************************************************************)
Live(name, type_oid, attnotnull, atthasdef) ==
    [name |-> name, type_oid |-> type_oid, attnotnull |-> attnotnull,
     atthasdef |-> atthasdef]

\* Type::postgres_type().oid()
postgres_type_oid(self) ==
    CASE self = "Bool" -> 16
      [] self = "I32" -> 23
      [] self = "I64" -> 20
      [] self = "F32" -> 700
      [] self = "F64" -> 701
      [] self = "String" -> 1043
      [] self = "Timestamp" -> 1184

\* The store resolving a type name written in a statement (pg_type.typname).
StoreTypeOid(type_name) ==
    CASE type_name = "bool" -> 16
      [] type_name = "int8" -> 20
      [] type_name = "int4" -> 23
      [] type_name = "text" -> 25
      [] type_name = "float4" -> 700
      [] type_name = "float8" -> 701
      [] type_name = "varchar" -> 1043
      [] type_name = "timestamptz" -> 1184

\* The store folds an identifier written without quotes to lower case.
FoldIdentifier(ident) ==
    CASE ident = "userId" -> "userid"
      [] OTHER -> ident

\* Result<(), DbError> of the reconciler.
ReconOk == [tag |-> "Ok", table |-> "", kind |-> "", column |-> ""]
ReconNone == [tag |-> "none", table |-> "", kind |-> "", column |-> ""]
PostgresError(table, kind) ==
    [tag |-> "PostgresError", table |-> table, kind |-> kind, column |-> ""]
StructureError(table, kind, column) ==
    [tag |-> "StructureError", table |-> table, kind |-> kind, column |-> column]

\* creation_query: the table name is quoted, the column names are not.
creation_query(table) ==
    [table |-> table.name,
     columns |-> [i \in 1..Len(table.columns) |->
                    [ident |-> table.columns[i].name,
                     type_name |-> postgres_type_name(table.columns[i].type_),
                     not_null |-> table.columns[i].required]]]

\* The store executing CREATE TABLE: <<>> when it rejects the statement
\* (the table exists, or a column is specified more than once), else the
\* catalog with the new table.
ExecCreate(query, cat) ==
    LET names == [i \in 1..Len(query.columns) |-> FoldIdentifier(query.columns[i].ident)]
        columns == { Live(names[i], StoreTypeOid(query.columns[i].type_name),
                          query.columns[i].not_null, FALSE)
                     : i \in 1..Len(query.columns) }
    IN IF \/ query.table \in DOMAIN cat
          \/ \E i, j \in 1..Len(names) : i # j /\ names[i] = names[j]
       THEN None
       ELSE Some([t \in DOMAIN cat \cup {query.table} |->
                    IF t = query.table THEN columns ELSE cat[t]])

\* a.attnotnull and not a.atthasdef as "required"
LiveRequired(existing_column) ==
    existing_column.attnotnull /\ ~existing_column.atthasdef

\* table.columns.iter().find(|column| column.name == name)
FindColumn(columns, name) ==
    LET hits == {i \in 1..Len(columns) : columns[i].name = name}
    IN IF hits = {} THEN None ELSE Some(columns[Min(hits)])

\* The first loop's body without the comparison of the required flags.
ExistingColumnError_no_required_check(table, existing_column) ==
    LET column == FindColumn(table.columns, existing_column.name)
    IN IF Len(column) > 0
       THEN IF existing_column.type_oid # postgres_type_oid(column[1].type_)
            THEN Some(StructureError(table.name, "type", existing_column.name))
            ELSE None
       ELSE IF LiveRequired(existing_column)
            THEN Some(StructureError(table.name, "extra", existing_column.name))
            ELSE None

\* The body of check_table's first loop for one live column: None when the
\* column passes.
ExistingColumnError(table, existing_column) ==
    LET column == FindColumn(table.columns, existing_column.name)
    IN IF Len(column) > 0
       THEN IF existing_column.type_oid # postgres_type_oid(column[1].type_)
            THEN Some(StructureError(table.name, "type", existing_column.name))
            ELSE IF LiveRequired(existing_column) /\ ~column[1].required
            THEN Some(StructureError(table.name, "not-null", existing_column.name))
            ELSE None
       ELSE IF LiveRequired(existing_column)
            THEN Some(StructureError(table.name, "extra", existing_column.name))
            ELSE None

\* check_table without its second loop (the configured columns).
check_table_first_loop_only(table, existing_columns) ==
    LET inError == {c \in existing_columns : Len(ExistingColumnError(table, c)) > 0}
    IN IF inError # {}
       THEN { ExistingColumnError(table, c)[1] : c \in inError }
       ELSE { ReconOk }

\* check_table on the rows the catalog query returned: the set of results
\* the call can have.  The rows come in no stated order and the first loop
\* returns at the first row in error, so any row in error can be the one
\* reported; the second loop runs only when no row is in error.
check_table(table, existing_columns) ==
    LET inError == {c \in existing_columns : Len(ExistingColumnError(table, c)) > 0}
        missing == {i \in 1..Len(table.columns) :
                      \A c \in existing_columns : c.name # table.columns[i].name}
    IN IF inError # {}
       THEN { ExistingColumnError(table, c)[1] : c \in inError }
       ELSE IF missing # {}
       THEN { StructureError(table.name, "missing", table.columns[Min(missing)].name) }
       ELSE { ReconOk }

Perms(S) == { f \in [1..Cardinality(S) -> S] : \A i, j \in DOMAIN f : i # j => f[i] # f[j] }
ReconOutcome(cat, result, made, seen) ==
    [catalog |-> cat, result |-> result, made |-> made, seen |-> seen]

\* The loop of create_tables over the tables in the order given: the set of
\* outcomes.  Every statement runs on the plain connection, outside any
\* transaction, and may also fail for a reason of the connection.
RECURSIVE create_tables_loop(_, _, _, _, _, _)
create_tables_loop(order, tables, existing_tables, cat, made, seen) ==
    IF Len(order) = 0 THEN { ReconOutcome(cat, ReconOk, made, seen) }
    ELSE
        LET table == tables[Head(order)]
        IN IF table.name \notin existing_tables
           THEN LET after == ExecCreate(creation_query(table), cat)
                IN { ReconOutcome(cat, PostgresError(table.name, "connection"), made, seen) }
                   \cup
                   ( IF Len(after) = 0
                     THEN { ReconOutcome(cat, PostgresError(table.name, "statement"),
                                         made, seen) }
                     ELSE create_tables_loop(Tail(order), tables, existing_tables,
                                             after[1], made \cup {table.name}, seen) )
           ELSE { ReconOutcome(cat, PostgresError(table.name, "connection"), made, seen) }
                \cup
                UNION { IF r = ReconOk
                        THEN create_tables_loop(Tail(order), tables, existing_tables,
                                                cat, made, seen \cup {table.name})
                        ELSE { ReconOutcome(cat, r, made, seen \cup {table.name}) }
                        : r \in check_table(table, cat[table.name]) }

\* create_tables: the set of outcomes of one run against the catalog.
create_tables(cfg, cat) ==
    { ReconOutcome(cat, PostgresError("", "connection"), {}, {}) }
    \cup UNION { create_tables_loop(order, cfg.tables, DOMAIN cat, cat, {}, {})
                 : order \in Perms(DOMAIN cfg.tables) }

(***************************************************************************)
(* Insertion (db.rs insert_event) and the request handler (main.rs         *)
(* events_post).  An event is a JSON object: a function from field names   *)
(* to values, JNull where the object has no such field (indexing a         *)
(* serde_json::Value by a missing key yields Null).                        *)
(***************************************************************************)
NumReqs == 2
Reqs == 1..NumReqs

Row(table, values) == [table |-> table, values |-> values]

\* Result of the conversion loop of insert_event.
ConvertedRow(values) == [tag |-> "values", column |-> "", values |-> values]
ConversionError(column) == [tag |-> "ConversionError", column |-> column, values |-> <<>>]
ConversionPanic == [tag |-> "panic", column |-> "", values |-> <<>>]

\* The loop of insert_event over table.columns from position k on: the set
\* of outcomes; the first failing column ends it.
RECURSIVE convert_columns(_, _, _, _)
convert_columns(columns, json, k, values) ==
    IF k > Len(columns) THEN { ConvertedRow(values) }
    ELSE UNION {
            IF res.tag = "Ok"
            THEN convert_columns(columns, json, k + 1, Append(values, res.val))
            ELSE IF res.tag = "panic" THEN { ConversionPanic }
            ELSE { ConversionError(columns[k].name) }
            : res \in json_to_sql(columns[k].type_, columns[k].name,
                                  json[columns[k].name], columns[k].required) }

\* The INSERT statement of insert_event: table and column names are quoted.
insert_query(table) ==
    [table |-> table.name,
     columns |-> [i \in 1..Len(table.columns) |-> table.columns[i].name]]

\* The store accepting the INSERT: the table and every named column exist,
\* no NOT NULL column receives NULL, and every NOT NULL column without a
\* default is named.
ExecInsertAccepts(query, values, cat) ==
    /\ query.table \in DOMAIN cat
    /\ \A i \in 1..Len(query.columns) :
          \E c \in cat[query.table] :
              /\ c.name = query.columns[i]
              /\ c.attnotnull => values[i] # SqlNull
    /\ \A c \in cat[query.table] :
          LiveRequired(c) => \E i \in 1..Len(query.columns) : query.columns[i] = c.name

\* A whole-batch check that stops after the first event.
RECURSIVE check_events_first_only(_, _, _)
check_events_first_only(app, events, k) ==
    IF k > Len(events) \/ k > 1 THEN ""
    ELSE IF Len(as_str(events[k]["_t"])) = 0 THEN "BadRequest"
    ELSE IF as_str(events[k]["_t"])[1] \notin Range(app.tables) THEN "NotFound"
    ELSE check_events_first_only(app, events, k + 1)

\* An authorization that consults the Schema's table map instead of the
\* application's list.
RECURSIVE check_events_any_table(_, _, _)
check_events_any_table(schema, events, k) ==
    IF k > Len(events) THEN ""
    ELSE IF Len(as_str(events[k]["_t"])) = 0 THEN "BadRequest"
    ELSE IF as_str(events[k]["_t"])[1] \notin DOMAIN schema.tables THEN "NotFound"
    ELSE check_events_any_table(schema, events, k + 1)
authorize_any_table(schema, app_id, secret_key, events) ==
    IF app_id \notin DOMAIN schema.apps THEN "NotFound"
    ELSE IF secret_key # schema.apps[app_id].secret_key THEN "Forbidden"
    ELSE check_events_any_table(schema, events, 1)

\* A rollback that takes the last rows off the committed ones, as if all
\* requests wrote through one shared connection.
rows_rolled_back_from_shared(rows, trans) == SubSeq(rows, 1, Len(rows) - Len(trans))

\* Statements run on the connection itself: nothing to roll back.
rows_without_transaction(rows, trans) == rows \o trans

\* Leaving the closure without handing the connection back.
Leave_holding_connection(q, status) ==
    [q EXCEPT !.pc = "done", !.status = status, !.trans = <<>>]

\* The handler's view of one request slot.
IdleReq ==
    [pc |-> "idle", app_id |-> "", secret_key |-> "", events |-> <<>>, i |-> 0,
     conn |-> FALSE, trans |-> <<>>, status |-> "", snap |-> <<>>, log |-> <<>>]

\* Lines 92-105: the application lookup, the secret and the whole-batch
\* check.  "" when the request may proceed to the store.
Discriminator(event) == as_str(event["_t"])
RECURSIVE check_events(_, _, _)
check_events(app, events, k) ==
    IF k > Len(events) THEN ""
    ELSE IF Len(Discriminator(events[k])) = 0 THEN "BadRequest"
    ELSE IF Discriminator(events[k])[1] \notin Range(app.tables) THEN "NotFound"
    ELSE check_events(app, events, k + 1)
authorize(schema, app_id, secret_key, events) ==
    IF app_id \notin DOMAIN schema.apps THEN "NotFound"
    ELSE IF secret_key # schema.apps[app_id].secret_key THEN "Forbidden"
    ELSE check_events(schema.apps[app_id], events, 1)

(***************************************************************************)
(* Each specification below exercises one part of the program; the         *)
(* variables of the other parts rest at these values.                      *)
(***************************************************************************)
NoText == [parses |-> FALSE, tables |-> EmptyMap, apps |-> EmptyMap]
IdleLoad == yaml = NoText /\ loaded = NotLoaded /\ loadedCfg = NotLoaded
NoConfig == [tables |-> EmptyMap]
IdleRecon ==
    /\ config = NoConfig /\ catalog = EmptyMap /\ reconResult = ReconNone
    /\ created = {} /\ checked = {}
IdleIngest == store = <<>> /\ pool = 0 /\ req = [r \in Reqs |-> IdleReq]
IdleConv ==
    /\ cKey = "score" /\ cType = "Bool" /\ cJson = JNull
    /\ cRequired = FALSE /\ cResult = NoResult

(***************************************************************************)
(* Inputs of the load specification: what the configuration text           *)
(* deserializes to.                                                        *)
(***************************************************************************)
MaxAppTables == 2
TableKeys == {"events", "admin"}
AppKeys == {"app1", "app2"}
NoHeader == <<>>
ColumnLists ==
    { << Column("platform", "String", NoHeader, TRUE),
         Column("score", "I32", NoHeader, FALSE) >>,
      << Column("referer", "String", <<"Referer">>, FALSE) >>,
      << Column("platform", "String", NoHeader, TRUE),
         Column("time", "Timestamp", <<"Date">>, FALSE),
         Column("score", "I32", <<"X-Score">>, FALSE) >>,
      << Column("score", "I32", NoHeader, FALSE),
         Column("score", "String", NoHeader, TRUE) >> }
SeqsUpTo(S, n) == UNION { [1..k -> S] : k \in 0..n }
Maps(K, V) == UNION { [D -> V] : D \in SUBSET K }
SecretOf(a) == IF a = "app1" THEN "s1" ELSE "s2"
RawTables == Maps(TableKeys, {Table("", cols) : cols \in ColumnLists})
RawApps ==
    UNION { { [a \in D |-> App("", SecretOf(a), f[a])] :
                f \in [D -> SeqsUpTo(TableKeys, MaxAppTables)] } : D \in SUBSET AppKeys }
Texts ==
    { [parses |-> TRUE, tables |-> t, apps |-> a] : t \in RawTables, a \in RawApps }
    \cup { [parses |-> FALSE, tables |-> EmptyMap, apps |-> EmptyMap] }
InitLoad ==
    /\ IdleConv /\ IdleRecon /\ IdleIngest
    /\ yaml \in Texts
    /\ loaded = NotLoaded
    /\ loadedCfg = NotLoaded

LoadSchema ==
    /\ loaded = NotLoaded
    /\ loaded' \in Schema_from_yaml(yaml)
    /\ UNCHANGED <<yaml, loadedCfg>>
    /\ UNCHANGED <<convVars, reconVars, ingestVars>>

LoadConfig ==
    /\ loadedCfg = NotLoaded
    /\ loadedCfg' \in Config_from_yaml(yaml)
    /\ UNCHANGED <<yaml, loaded>>
    /\ UNCHANGED <<convVars, reconVars, ingestVars>>

NextLoad == LoadSchema \/ LoadConfig
SpecLoad == InitLoad /\ [][NextLoad]_vars

(***************************************************************************)
(* Claims about the schema load.                                           *)
(***************************************************************************)
DanglingRefs(text) ==
    { <<a, n>> \in (DOMAIN text.apps) \X TableKeys :
        n \in Range(text.apps[a].tables) /\ n \notin DOMAIN text.tables }
HasDangling(text) == text.parses /\ DanglingRefs(text) # {}
HasWrongColumn(text) ==
    \E t \in DOMAIN text.tables : WrongColumns(text.tables[t].columns) # {}
\* The invariant of a Schema: every referenced table is a key of the table
\* map, every Table and Application carries its key.
SchemaInvariant(schema) ==
    /\ \A a \in DOMAIN schema.apps :
          /\ schema.apps[a].app_id = a
          /\ \A n \in Range(schema.apps[a].tables) : n \in DOMAIN schema.tables
    /\ \A t \in DOMAIN schema.tables : schema.tables[t].name = t
ReportsDangling(res) ==
    /\ res.tag = "TableNotFound"
    /\ <<res.app_id, res.table_name>> \in DanglingRefs(yaml)
    /\ res.schema = NoSchema

\* C8 as stated: whenever an application lists a table name that is no key of
\* the table map, Schema::from_yaml returns TableNotFound{app_id, table_name}
\* and no Schema; every Schema it returns satisfies the Schema invariant.
C8_AlwaysTableNotFound ==
    loaded # NotLoaded =>
        /\ HasDangling(yaml) => ReportsDangling(loaded)
        /\ loaded.tag = "Ok" => SchemaInvariant(loaded.schema)

\* C8 amended: with a dangling reference the load returns an error and no
\* Schema; the error is TableNotFound naming a dangling reference, except that
\* Schema::from_yaml reports WrongColumnType instead when some header-sourced
\* column is not of type String (that check runs first).  Config::from_yaml
\* always reports TableNotFound.  Every Schema or Config returned satisfies
\* the Schema invariant.
C8_FailFastOnDangling ==
    /\ loaded # NotLoaded =>
          /\ HasDangling(yaml) =>
                \/ ReportsDangling(loaded)
                \/ /\ loaded = WrongColumnType(loaded.actual)
                   /\ HasWrongColumn(yaml)
          /\ HasDangling(yaml) /\ ~HasWrongColumn(yaml) => ReportsDangling(loaded)
          /\ loaded.tag = "Ok" => SchemaInvariant(loaded.schema)
    /\ loadedCfg # NotLoaded =>
          /\ HasDangling(yaml) => ReportsDangling(loadedCfg)
          /\ loadedCfg.tag = "Ok" => SchemaInvariant(loadedCfg.schema)

\* Both loaders have rejected a text in which two applications dangle.
C8_Witness ==
    /\ ReportsDangling(loaded) /\ ReportsDangling(loadedCfg)
    /\ Cardinality({r[1] : r \in DanglingRefs(yaml)}) = 2

(***************************************************************************)
(* Inputs of the reconciliation specification: one configured table and a  *)
(* store in which that table is absent or exists in some shape.            *)
(***************************************************************************)
MaxCols == 2
ConfigColumns ==
    { Column("score", t, NoHeader, r) : t \in Types, r \in BOOLEAN }
    \cup { Column("userId", "String", NoHeader, r) : r \in BOOLEAN }
    \cup { Column("userid", "String", NoHeader, FALSE) }
ReconConfigs ==
    { [tables |-> [t \in {"events"} |-> Table("events", cols)]]
      : cols \in SeqsUpTo(ConfigColumns, MaxCols) }
LiveColumns ==
    { Live(n, o, f[1], f[2]) :
        n \in {"score", "userid"}, o \in {23, 1043},
        f \in {<<FALSE, FALSE>>, <<TRUE, FALSE>>, <<TRUE, TRUE>>} }
LiveTables ==
    { S \in SUBSET LiveColumns :
        /\ Cardinality(S) <= 2
        /\ \A c, d \in S : c.name = d.name => c = d }
Catalogs == { EmptyMap } \cup { [t \in {"events"} |-> S] : S \in LiveTables }

InitRecon ==
    /\ IdleConv /\ IdleLoad /\ IdleIngest
    /\ config \in ReconConfigs
    /\ catalog \in Catalogs
    /\ reconResult = ReconNone
    /\ created = {}
    /\ checked = {}

\* One start of the process: db::create_tables(&schema, &*conn).
CreateTables ==
    /\ \E o \in create_tables(config, catalog) :
          /\ catalog' = o.catalog
          /\ reconResult' = o.result
          /\ created' = created \cup o.made
          /\ checked' = o.seen
    /\ UNCHANGED config
    /\ UNCHANGED <<convVars, loadVars, ingestVars>>

NextRecon == CreateTables
SpecRecon == InitRecon /\ [][NextRecon]_vars

(***************************************************************************)
(* Claims about the reconciler.                                            *)
(***************************************************************************)
Positions(table, name) == {i \in 1..Len(table.columns) : table.columns[i].name = name}
HasCounterpart(table, live) == Positions(table, live.name) # {}
\* The configured column a live column matches by name (the first one,
\* should the configuration repeat the name).
Counterpart(table, live) == table.columns[Min(Positions(table, live.name))]
EffectivelyRequired(live) == live.attnotnull /\ ~live.atthasdef
TypeDiffers(table, lives) ==
    \E l \in lives : /\ HasCounterpart(table, l)
                     /\ l.type_oid # postgres_type_oid(Counterpart(table, l).type_)
LiveStricter(table, lives) ==
    \E l \in lives : /\ HasCounterpart(table, l)
                     /\ EffectivelyRequired(l)
                     /\ ~Counterpart(table, l).required
ExtraRequired(table, lives) ==
    \E l \in lives : ~HasCounterpart(table, l) /\ EffectivelyRequired(l)
ColumnMissing(table, lives) ==
    \E i \in 1..Len(table.columns) : \A l \in lives : l.name # table.columns[i].name
Incompatible(table, lives) ==
    \/ TypeDiffers(table, lives)
    \/ LiveStricter(table, lives)
    \/ ExtraRequired(table, lives)
    \/ ColumnMissing(table, lives)

\* C9: for a table that already exists, check_table returns StructureError
\* exactly when a live column differs in type from its configured
\* counterpart, or is effectively required while the counterpart is not
\* required, or is effectively required and has no counterpart, or a
\* configured column has no live counterpart; otherwise it succeeds.
C9_CheckTableVerdict ==
    \A t \in checked :
        (reconResult.tag = "StructureError" /\ reconResult.table = t)
            <=> Incompatible(config.tables[t], catalog[t])

\* check_table has refused a live column that is stricter than configured.
C9_Witness ==
    /\ "events" \in checked
    /\ reconResult = StructureError("events", "not-null", "score")

\* C10: a table that create_tables created from the configuration passes
\* check_table on every later run with the same configuration.
C10_CreateThenReconcile ==
    reconResult.tag = "StructureError" => reconResult.table \notin created

ReconcileFails(t) == reconResult.tag = "StructureError" /\ reconResult.table = t
\* A live column that is not effectively required (nullable, or NOT NULL
\* with a default) under a configured column that is required.
LiveLaxer(table, lives) ==
    \E l \in lives : /\ HasCounterpart(table, l)
                     /\ ~EffectivelyRequired(l)
                     /\ Counterpart(table, l).required

\* C11 as stated: reconcile fails when a live column and the configured
\* column of the same name differ in their required flags, in either
\* direction.
C11_EitherDirectionFatal ==
    \A t \in checked :
        LiveStricter(config.tables[t], catalog[t]) \/ LiveLaxer(config.tables[t], catalog[t])
            => ReconcileFails(t)

\* C11 amended: reconcile fails when a live column is effectively required
\* and the configured column of the same name is not required; a configured
\* column that is required over a live column that is not effectively
\* required is accepted: a table whose only difference is of that kind
\* passes check_table.
C11_LiveStricterFatal ==
    \A t \in checked :
        /\ LiveStricter(config.tables[t], catalog[t]) => ReconcileFails(t)
        /\ LiveLaxer(config.tables[t], catalog[t])
              /\ ~Incompatible(config.tables[t], catalog[t])
              => ~ReconcileFails(t)

\* Both directions have been checked: a run that accepted a required
\* configured column over a nullable live one.
C11_Witness ==
    /\ "events" \in checked
    /\ LiveLaxer(config.tables["events"], catalog["events"])
    /\ Live("score", 23, FALSE, FALSE) \in catalog["events"]
    /\ reconResult = ReconOk

(***************************************************************************)
(* Startup with several tables: a configuration of up to two tables and a  *)
(* store in which each of them is absent or exists in some shape.          *)
(***************************************************************************)
StartupKeys == {"events", "metrics"}
StartupColumnLists ==
    { <<Column("score", "I32", NoHeader, FALSE)>>,
      <<Column("score", "I32", NoHeader, TRUE)>>,
      <<Column("userId", "String", NoHeader, FALSE),
        Column("userid", "String", NoHeader, FALSE)>> }
StartupConfigs ==
    UNION { { [tables |-> [t \in K |-> Table(t, f[t])]] : f \in [K -> StartupColumnLists] }
            : K \in SUBSET StartupKeys }
StartupLiveTables ==
    { {}, {Live("score", 23, FALSE, FALSE)}, {Live("score", 23, TRUE, FALSE)},
      {Live("score", 1043, FALSE, FALSE)} }
StartupCatalogs ==
    UNION { [K -> StartupLiveTables] : K \in SUBSET StartupKeys }

InitStartup ==
    /\ IdleConv /\ IdleLoad /\ IdleIngest
    /\ config \in StartupConfigs
    /\ catalog \in StartupCatalogs
    /\ reconResult = ReconNone
    /\ created = {}
    /\ checked = {}

SpecStartup == InitStartup /\ [][NextRecon]_vars

ReconFailed(result) == result.tag \in {"StructureError", "PostgresError"}

\* C12: a run of create_tables that returns an error (a StructureError on an
\* existing table or a failed CREATE) leaves the store's catalog as it was
\* before the run: no table created earlier in the same run remains.
C12_FailedRunKeepsCatalog ==
    [][CreateTables /\ ReconFailed(reconResult') => catalog' = catalog]_vars

(***************************************************************************)
(* The ingestion specification: a Schema as Schema::from_yaml returns it,  *)
(* the store as create_tables leaves it on an empty database, and requests *)
(* handled one at a time.                                                  *)
(***************************************************************************)
MaxBatch == 3
MaxStored == 1
IngestText ==
    [parses |-> TRUE,
     tables |->
        [t \in {"events", "metrics", "admin"} |->
            Table("",
                CASE t = "events" ->
                        << Column("platform", "String", NoHeader, TRUE),
                           Column("score", "I32", NoHeader, FALSE),
                           Column("time", "Timestamp", NoHeader, FALSE) >>
                  [] t = "metrics" -> << Column("value", "I32", NoHeader, TRUE) >>
                  [] t = "admin" -> << Column("note", "String", NoHeader, FALSE) >>)],
     apps |->
        [a \in {"app1", "app2"} |->
            IF a = "app1" THEN App("", "s1", <<"events", "metrics">>)
            ELSE App("", "s2", <<"admin">>)]]
TheSchema == (CHOOSE r \in Schema_from_yaml(IngestText) : TRUE).schema
TheConfig == [tables |-> TheSchema.tables]
\* The Schema the handler receives as managed state: the one the process
\* loaded, where the load is part of the behaviour.
ServedSchema == IF loaded.tag = "Ok" THEN loaded.schema ELSE TheSchema
TheCatalog ==
    (CHOOSE o \in create_tables(TheConfig, EmptyMap) : o.result = ReconOk).catalog

Fields == {"_t", "platform", "score", "time", "value", "note"}
Event(t, platform, score, time, value, note) ==
    [f \in Fields |->
        CASE f = "_t" -> t
          [] f = "platform" -> platform
          [] f = "score" -> score
          [] f = "time" -> time
          [] f = "value" -> value
          [] f = "note" -> note]
Events ==
    { Event(JStr("events"), JStr("ios"), JInt(0, 5), JNull, JNull, JNull),
      Event(JStr("events"), JNull, JInt(0, 5), JNull, JNull, JNull),
      Event(JStr("events"), JStr("ios"), JNull, JStr("not-a-date"), JNull, JNull),
      Event(JStr("events"), JStr("ios"), JInt(4, 1410065407), JNull, JNull, JNull),
      Event(JStr("events"), JStr("ios"), JNull, JInt(4000, 0), JNull, JNull),
      Event(JStr("metrics"), JNull, JNull, JNull, JInt(4, 1410065407), JNull),
      Event(JNull, JStr("ios"), JNull, JNull, JNull, JNull),
      Event(JInt(0, 5), JStr("ios"), JNull, JNull, JNull, JNull),
      Event(JStr("admin"), JNull, JNull, JNull, JNull, JStr("ios")) }
Batches == SeqsUpTo(Events, MaxBatch)
AppIds == {"app1", "app2", "app9"}
Secrets == {"s1", "s2"}

Init ==
    /\ IdleConv /\ IdleLoad
    /\ config = TheConfig
    /\ catalog = TheCatalog
    /\ reconResult = ReconOk
    /\ created = DOMAIN TheConfig.tables
    /\ checked = {}
    /\ store = <<>>
    /\ pool = 0
    /\ req = [r \in Reqs |-> IdleReq]

\* The committed rows after a transaction is dropped without commit: its
\* statements ran inside the transaction, so none of them stays.
rows_after_rollback(rows, trans) == rows

\* What leaving the closure does to the slot: the transaction, if not
\* committed, is rolled back when dropped, then the connection returns to
\* the pool.
Leave(q, status) ==
    [q EXCEPT !.pc = "done", !.status = status, !.conn = FALSE, !.trans = <<>>,
              !.log = IF q.conn THEN Append(q.log, "release") ELSE q.log]
Released(q) == IF q.conn THEN 1 ELSE 0

\* A request arrives while no other is being handled.
Receive(r) ==
    /\ \A q \in Reqs : req[q].pc = "idle"
    /\ Len(store) <= MaxStored
    /\ \E a \in AppIds, k \in Secrets, b \in Batches :
          req' = [req EXCEPT ![r] =
                    [IdleReq EXCEPT !.pc = "received", !.app_id = a,
                                    !.secret_key = k, !.events = b, !.snap = store]]
    /\ UNCHANGED <<store, pool>>
    /\ UNCHANGED <<convVars, loadVars, reconVars>>

\* events_post, lines 92-105.
Validate(r) ==
    /\ req[r].pc = "received"
    /\ LET status == authorize(ServedSchema, req[r].app_id, req[r].secret_key, req[r].events)
       IN req' = [req EXCEPT ![r] =
                    IF status = "" THEN [@ EXCEPT !.pc = "checked"]
                    ELSE Leave(@, status)]
    /\ UNCHANGED <<store, pool>>
    /\ UNCHANGED <<convVars, loadVars, reconVars>>

\* events_post, lines 107-111: db_conn_pool.get().
GetConn(r) ==
    /\ req[r].pc = "checked"
    /\ \/ /\ req' = [req EXCEPT ![r] =
                       [@ EXCEPT !.pc = "connected", !.conn = TRUE,
                                 !.log = Append(@, "get")]]
          /\ pool' = pool + 1
       \/ /\ req' = [req EXCEPT ![r] = Leave(@, "InternalServerError")]
          /\ pool' = pool
    /\ UNCHANGED store
    /\ UNCHANGED <<convVars, loadVars, reconVars>>

\* events_post, lines 112-116: conn.transaction().
Begin(r) ==
    /\ req[r].pc = "connected"
    /\ \/ /\ req' = [req EXCEPT ![r] =
                       [@ EXCEPT !.pc = "loop", !.i = 1, !.log = Append(@, "begin")]]
          /\ pool' = pool
       \/ /\ req' = [req EXCEPT ![r] = Leave(@, "InternalServerError")]
          /\ pool' = pool - Released(req[r])
    /\ UNCHANGED store
    /\ UNCHANGED <<convVars, loadVars, reconVars>>

\* A loop turn that passes over a record it cannot convert and goes on.
InsertEvent_skip_failed(r) ==
    /\ req[r].pc = "loop"
    /\ req[r].i <= Len(req[r].events)
    /\ LET event == req[r].events[req[r].i]
           table == ServedSchema.tables[Discriminator(event)[1]]
       IN \E o \in convert_columns(table.columns, event, 1, <<>>) :
             req' = [req EXCEPT ![r] =
                       IF o.tag = "values"
                       THEN [@ EXCEPT !.i = @ + 1,
                                      !.trans = Append(@, Row(table.name, o.values)),
                                      !.log = Append(@, "insert")]
                       ELSE [@ EXCEPT !.i = @ + 1]]
    /\ UNCHANGED <<store, pool>>
    /\ UNCHANGED <<convVars, loadVars, reconVars>>

\* events_post, lines 118-130: one turn of the insertion loop, with
\* db::insert_event.
InsertEvent(r) ==
    /\ req[r].pc = "loop"
    /\ req[r].i <= Len(req[r].events)
    /\ LET event == req[r].events[req[r].i]
           abandoned == rows_after_rollback(store, req[r].trans)
       IN IF Len(Discriminator(event)) = 0
          THEN \* event["_t"].as_str().unwrap()
               /\ req' = [req EXCEPT ![r] = Leave(@, "panic")]
               /\ pool' = pool - Released(req[r])
               /\ store' = abandoned
          ELSE IF Discriminator(event)[1] \notin DOMAIN ServedSchema.tables
          THEN /\ req' = [req EXCEPT ![r] = Leave(@, "InternalServerError")]
               /\ pool' = pool - Released(req[r])
               /\ store' = abandoned
          ELSE LET table == ServedSchema.tables[Discriminator(event)[1]]
               IN \E o \in convert_columns(table.columns, event, 1, <<>>) :
                     \/ /\ o.tag = "ConversionError"
                        /\ req' = [req EXCEPT ![r] = Leave(@, "BadRequest")]
                        /\ pool' = pool - Released(req[r])
                        /\ store' = abandoned
                     \/ /\ o.tag = "panic"
                        /\ req' = [req EXCEPT ![r] = Leave(@, "panic")]
                        /\ pool' = pool - Released(req[r])
                        /\ store' = abandoned
                     \/ /\ o.tag = "values"
                        /\ ExecInsertAccepts(insert_query(table), o.values, catalog)
                        /\ req' = [req EXCEPT ![r] =
                                     [@ EXCEPT !.i = @ + 1,
                                               !.trans = Append(@, Row(table.name, o.values)),
                                               !.log = Append(@, "insert")]]
                        /\ pool' = pool
                        /\ store' = store
                     \/ \* the statement fails: a constraint, or the connection
                        /\ o.tag = "values"
                        /\ req' = [req EXCEPT ![r] = Leave(@, "InternalServerError")]
                        /\ pool' = pool - Released(req[r])
                        /\ store' = abandoned
    /\ UNCHANGED <<convVars, loadVars, reconVars>>

\* events_post, lines 132-138: trans.commit() and the response.
Commit(r) ==
    /\ req[r].pc = "loop"
    /\ req[r].i > Len(req[r].events)
    /\ \/ /\ store' = store \o req[r].trans
          /\ req' = [req EXCEPT ![r] =
                       Leave([@ EXCEPT !.log = Append(@, "commit")], "Ok")]
       \/ /\ store' = rows_after_rollback(store, req[r].trans)
          /\ req' = [req EXCEPT ![r] = Leave(@, "InternalServerError")]
    /\ pool' = pool - Released(req[r])
    /\ UNCHANGED <<convVars, loadVars, reconVars>>

\* The response has been sent; the slot is free again.
Respond(r) ==
    /\ req[r].pc = "done"
    /\ req' = [req EXCEPT ![r] = IdleReq]
    /\ UNCHANGED <<store, pool>>
    /\ UNCHANGED <<convVars, loadVars, reconVars>>

Next ==
    \E r \in Reqs :
        \/ Receive(r)
        \/ Validate(r)
        \/ GetConn(r)
        \/ Begin(r)
        \/ InsertEvent(r)
        \/ Commit(r)
        \/ Respond(r)
Spec == Init /\ [][Next]_vars

(***************************************************************************)
(* Concurrent ingestion: the transport hands each request to a worker of   *)
(* its own, so the steps of several events_post calls interleave.  Each    *)
(* call holds its own pooled connection and transaction; the Schema is     *)
(* only read.  The store shows a transaction's rows to others at its       *)
(* commit.                                                                 *)
(***************************************************************************)
EvOk == Event(JStr("events"), JStr("ios"), JInt(0, 5), JNull, JNull, JNull)
EvNoPlatform == Event(JStr("events"), JNull, JInt(0, 5), JNull, JNull, JNull)
EvTimeOutOfRange == Event(JStr("events"), JStr("ios"), JNull, JInt(4000, 0), JNull, JNull)
MetOk == Event(JStr("metrics"), JNull, JNull, JNull, JInt(0, 7), JNull)
EvAdmin == Event(JStr("admin"), JNull, JNull, JNull, JNull, JStr("ios"))
ConcurrentPosts ==
    { [secret_key |-> "s1", events |-> <<EvOk, MetOk>>],
      [secret_key |-> "s1", events |-> <<EvOk, EvNoPlatform>>],
      [secret_key |-> "s1", events |-> <<MetOk, EvTimeOutOfRange>>],
      [secret_key |-> "s1", events |-> <<EvOk, EvAdmin>>],
      [secret_key |-> "s2", events |-> <<EvOk>>] }

\* A request arrives, whatever the other workers are doing.
ReceiveConcurrent(r) ==
    /\ req[r].pc = "idle"
    /\ Len(store) <= MaxStored
    /\ \E p \in ConcurrentPosts :
          req' = [req EXCEPT ![r] =
                    [IdleReq EXCEPT !.pc = "received", !.app_id = "app1",
                                    !.secret_key = p.secret_key,
                                    !.events = p.events, !.snap = store]]
    /\ UNCHANGED <<store, pool>>
    /\ UNCHANGED <<convVars, loadVars, reconVars>>

NextConcurrent ==
    \E r \in Reqs :
        \/ ReceiveConcurrent(r)
        \/ Validate(r)
        \/ GetConn(r)
        \/ Begin(r)
        \/ InsertEvent(r)
        \/ Commit(r)
        \/ Respond(r)
SpecConcurrent == Init /\ [][NextConcurrent]_vars

(***************************************************************************)
(* The process from its start: the Schema is loaded from a text, the       *)
(* tables are created in an empty store, then requests are served against  *)
(* the loaded Schema, one at a time.                                       *)
(***************************************************************************)
ServedFields == Fields \cup {"referer"}
ServedEvent(t) ==
    [f \in ServedFields |->
        IF f = "_t" THEN JStr(t) ELSE IF f = "platform" THEN JStr("ios") ELSE JNull]
ServedPosts ==
    { [app_id |-> a, secret_key |-> SecretOf(a), events |-> b] :
        a \in AppKeys,
        b \in { <<ServedEvent("events")>>, <<ServedEvent("admin")>>,
                <<ServedEvent("events"), ServedEvent("admin")>> } }
    \cup { [app_id |-> "app1", secret_key |-> "s2", events |-> <<ServedEvent("events")>>] }

\* run(), main.rs lines 218-221: db::create_tables on the loaded Schema.
StartServing ==
    /\ loaded.tag = "Ok"
    /\ reconResult = ReconNone
    /\ config' = [tables |-> loaded.schema.tables]
    /\ \E o \in create_tables([tables |-> loaded.schema.tables], catalog) :
          /\ catalog' = o.catalog
          /\ reconResult' = o.result
          /\ created' = o.made
          /\ checked' = o.seen
    /\ UNCHANGED <<convVars, loadVars, ingestVars>>

\* A request arrives at the launched server while it handles no other.
ReceiveServed(r) ==
    /\ loaded.tag = "Ok"
    /\ reconResult = ReconOk
    /\ r = 1
    /\ \A q \in Reqs : req[q].pc = "idle"
    /\ store = <<>>
    /\ \E p \in ServedPosts :
          req' = [req EXCEPT ![r] =
                    [IdleReq EXCEPT !.pc = "received", !.app_id = p.app_id,
                                    !.secret_key = p.secret_key,
                                    !.events = p.events, !.snap = store]]
    /\ UNCHANGED <<store, pool>>
    /\ UNCHANGED <<convVars, loadVars, reconVars>>

NextServe ==
    \/ LoadSchema
    \/ StartServing
    \/ \E r \in Reqs :
          \/ ReceiveServed(r)
          \/ Validate(r)
          \/ GetConn(r)
          \/ Begin(r)
          \/ InsertEvent(r)
          \/ Commit(r)
          \/ Respond(r)
SpecServe == InitLoad /\ [][NextServe]_vars

(***************************************************************************)
(* Inputs of the conversion specification.                                 *)
(***************************************************************************)
Keys == {"score", "time"}
ValidRfc2822 == "Tue, 01 Sep 2020 00:00:00 +0000"
JsonValues ==
    { JNull, JBool(TRUE), JBool(FALSE), JArray, JObject,
      JInt(0, 5),                 \* 5
      JInt(0, 2147483647),        \* i32::MAX
      JInt(-1, 0),                \* i32::MIN
      JInt(-1, 2147483647),       \* -1
      JInt(1, 0),                 \* 2147483648
      JInt(-2, 2147483647),       \* -2147483649
      JInt(4, 1410065407),        \* 9999999999
      JInt(4000, 0),              \* 8589934592000
      JFloat(0, 1598900000, 500000000),   \* 1598900000.5
      JFloat(-1, 2147483647, -500000000), \* -1.5
      JStr("ios"), JStr("not-a-date"), JStr(ValidRfc2822) }

InitConv ==
    /\ IdleLoad /\ IdleRecon /\ IdleIngest
    /\ cKey \in Keys
    /\ cType \in Types
    /\ cJson \in JsonValues
    /\ cRequired \in BOOLEAN
    /\ cResult = NoResult

Convert ==
    /\ cResult = NoResult
    /\ cResult' \in json_to_sql(cType, cKey, cJson, cRequired)
    /\ UNCHANGED <<cKey, cType, cJson, cRequired>>
    /\ UNCHANGED <<loadVars, reconVars, ingestVars>>

NextConv == Convert
SpecConv == InitConv /\ [][NextConv]_vars
(***************************************************************************)
(* Claims about Type::json_to_sql, stated on the finished call.            *)
(***************************************************************************)
ConvertDone == cResult # NoResult
InI32Range(json) == json.hi \in {0, -1}
AsI32(json) == IF json.hi = 0 THEN json.lo ELSE (json.lo - 1073741824) - 1073741824
InTimestampRange(json) ==
    /\ LimbLE(TsMin, [hi |-> json.hi, lo |-> json.lo])
    /\ LimbLE([hi |-> json.hi, lo |-> json.lo], LimbDec(TsMax))
\* A present value that is a value of the semantic type.
WellFormed(type, json) ==
    CASE type = "Bool" -> json.k = "bool"
      [] type = "I32" -> json.k = "int" /\ InI32Range(json)
      [] type = "I64" -> json.k = "int"
      [] type \in {"F32", "F64"} -> json.k \in {"int", "float"}
      [] type = "String" -> json.k = "string"
      [] type = "Timestamp" ->
            \/ json.k \in {"int", "float"} /\ InTimestampRange(json)
            \/ json.k = "string" /\ json.s = ValidRfc2822
\* The typed value a well-formed input stands for.  An instant is whole
\* seconds since the epoch plus 0 .. 999999999 nanoseconds.
Expected(type, json) ==
    CASE type = "Bool" -> Sql("bool", json.b, 0, 0, 0, "")
      [] type = "I32" -> Sql("int4", FALSE, 0, AsI32(json), 0, "")
      [] type = "I64" -> Sql("int8", FALSE, json.hi, json.lo, 0, "")
      [] type = "F32" -> Sql("float4", FALSE, json.hi, json.lo, json.n, "")
      [] type = "F64" -> Sql("float8", FALSE, json.hi, json.lo, json.n, "")
      [] type = "String" -> Sql("varchar", FALSE, 0, 0, 0, json.s)
      [] type = "Timestamp" ->
            IF json.k = "string" THEN Sql("timestamptz", FALSE, 0, 1598918400, 0, "")
            ELSE IF json.n >= 0
                 THEN Sql("timestamptz", FALSE, json.hi, json.lo, json.n, "")
                 ELSE LET s == LimbDec([hi |-> json.hi, lo |-> json.lo])
                      IN Sql("timestamptz", FALSE, s.hi, s.lo, 1000000000 + json.n, "")
AbsentBranch == IF cRequired THEN MissingValue(cKey) ELSE Ok(SqlNull)

\* C5: for each of the 7 semantic types a present, well-formed value converts
\* to the matching typed value, an absent value converts to NULL when the
\* column is not required and to MissingValue(column) when it is; the result
\* is a value or an error, and a required column never yields NULL.
C5_ConversionContract ==
    ConvertDone =>
        /\ WellFormed(cType, cJson) => cResult = Ok(Expected(cType, cJson))
        /\ cJson = JNull => cResult = AbsentBranch
        /\ cResult.tag \in {"Ok", "MissingValue", "TimestampFormat"}
        /\ cRequired /\ cResult.tag = "Ok" => cResult.val # SqlNull

\* C6: for an Int32 column a JSON integer outside the signed 32-bit range
\* converts exactly as an absent field does: MissingValue(column) when the
\* column is required, NULL when it is not.
C6_OverflowIsAbsent ==
    ConvertDone /\ cType = "I32" /\ cJson.k = "int" /\ ~InI32Range(cJson)
        => cResult = AbsentBranch

\* C7: for a Timestamp column a JSON number or a well-formed RFC-2822 string
\* yields a timestamp value; a string that does not parse yields
\* TimestampFormat whether or not the column is required; every other shape
\* is treated as absent.
C7_TimestampByShape ==
    ConvertDone /\ cType = "Timestamp" =>
        /\ cJson.k \in {"int", "float"} \/ (cJson.k = "string" /\ cJson.s = ValidRfc2822)
              => cResult.tag = "Ok" /\ cResult.val.ty = "timestamptz"
        /\ cJson.k = "string" /\ cJson.s # ValidRfc2822 => cResult = TimestampFormat
        /\ cJson.k \in {"null", "bool", "array", "object"} => cResult = AbsentBranch

(***************************************************************************)
(* Claims about events_post.                                               *)
(***************************************************************************)
Active(q) == q.pc # "idle"
Done(q) == q.pc = "done"
KnownApp(q) == q.app_id \in DOMAIN TheSchema.apps
AppOf(q) == TheSchema.apps[q.app_id]
SecretRight(q) == q.secret_key = AppOf(q).secret_key
NoString(event) == event["_t"].k # "string"
Unauthorized(app, event) ==
    event["_t"].k = "string" /\ event["_t"].s \notin Range(app.tables)
Offending(app, event) == NoString(event) \/ Unauthorized(app, event)
Count(log, what) == Cardinality({k \in 1..Len(log) : log[k] = what})
NothingWritten(q) == q.log = <<>> /\ ~q.conn /\ q.trans = <<>> /\ store = q.snap

\* C1: the rows of a batch become visible only when every record converted,
\* every INSERT executed and the commit succeeded, and then all together, in
\* record order; at every other point of the request, and after every
\* failure, the visible rows are those visible when the request started.
C1_BatchAtomicity ==
    \A r \in Reqs :
        LET q == req[r] IN
        Active(q) =>
            IF Done(q) /\ q.status = "Ok"
            THEN /\ Len(store) = Len(q.snap) + Len(q.events)
                 /\ SubSeq(store, 1, Len(q.snap)) = q.snap
                 /\ \A k \in 1..Len(q.events) :
                       store[Len(q.snap) + k].table = q.events[k]["_t"].s
                 /\ Count(q.log, "insert") = Len(q.events)
                 /\ Count(q.log, "commit") = 1
            ELSE store = q.snap

\* A batch of 3 whose second record fails conversion after the first was
\* inserted, against a store that already holds a row.
C1_Witness ==
    \E r \in Reqs :
        /\ Done(req[r]) /\ req[r].status = "BadRequest"
        /\ Len(req[r].events) = 3 /\ req[r].i = 2
        /\ Count(req[r].log, "insert") = 1
        /\ Len(req[r].snap) = 1 /\ store = req[r].snap

\* C2: when any record of the batch, at any position, has a missing or
\* non-string discriminator or names a table outside the application's
\* list, no connection is acquired, no transaction opened and no INSERT
\* executed for any record of the batch.
C2_CheckBeforeWrite ==
    \A r \in Reqs :
        LET q == req[r] IN
        Active(q) /\ KnownApp(q) /\ (\E k \in 1..Len(q.events) : Offending(AppOf(q), q.events[k]))
            => /\ q.pc \in {"received", "done"}
               /\ NothingWritten(q)

\* The check has refused a batch whose last record offends, the others not.
C2_Witness ==
    \E r \in Reqs :
        LET q == req[r] IN
        /\ Done(q) /\ KnownApp(q) /\ SecretRight(q) /\ Len(q.events) = 3
        /\ ~Offending(AppOf(q), q.events[1]) /\ ~Offending(AppOf(q), q.events[2])
        /\ Offending(AppOf(q), q.events[3])
        /\ NothingWritten(q)

\* C3 as stated: for a known application a wrong secret yields forbidden; with
\* the right secret a record naming a table outside the application's list
\* yields not-found; nothing is written in either case.
C3_UnauthorizedIsNotFound ==
    \A r \in Reqs :
        LET q == req[r] IN
        Done(q) /\ KnownApp(q) =>
            /\ ~SecretRight(q) => q.status = "Forbidden" /\ NothingWritten(q)
            /\ SecretRight(q) /\ (\E k \in 1..Len(q.events) : Unauthorized(AppOf(q), q.events[k]))
                  => q.status = "NotFound" /\ NothingWritten(q)

\* C3 amended: for a known application a wrong secret yields forbidden; with
\* the right secret, a batch holding a record that names a table outside the
\* application's list yields not-found, unless an earlier record has a
\* missing or non-string discriminator, which yields bad-request; nothing is
\* written in any of these cases.
C3_AuthorizationOutcomes ==
    \A r \in Reqs :
        LET q == req[r]
            bad == {k \in 1..Len(q.events) : Offending(AppOf(q), q.events[k])}
        IN
        Done(q) /\ KnownApp(q) =>
            /\ ~SecretRight(q) => q.status = "Forbidden" /\ NothingWritten(q)
            /\ SecretRight(q) /\ (\E k \in bad : Unauthorized(AppOf(q), q.events[k]))
                  => /\ q.status =
                          IF Unauthorized(AppOf(q), q.events[Min(bad)])
                          THEN "NotFound" ELSE "BadRequest"
                     /\ NothingWritten(q)

\* The right secret, a good record, then a record for a table of the Schema
\* that only another application may write: not-found.
C3_Witness ==
    \E r \in Reqs :
        LET q == req[r] IN
        /\ Done(q) /\ KnownApp(q) /\ SecretRight(q) /\ Len(q.events) = 2
        /\ ~Offending(AppOf(q), q.events[1])
        /\ Unauthorized(AppOf(q), q.events[2])
        /\ q.events[2]["_t"].s \in DOMAIN TheSchema.tables
        /\ q.status = "NotFound"

\* A record on which value conversion fails: a required field is absent, a
\* timestamp string is malformed, or an integer overflows a required Int32
\* column (on an optional one the overflow is stored as NULL).
ConversionFails(table, event) ==
    \E c \in Range(table.columns) :
        \/ c.required /\ event[c.name] = JNull
        \/ c.type_ = "Timestamp" /\ event[c.name].k = "string"
                                 /\ event[c.name].s # ValidRfc2822
        \/ c.required /\ c.type_ = "I32" /\ event[c.name].k = "int"
                      /\ ~InI32Range(event[c.name])

\* C4: the insertion loop stops at the first record on which value
\* conversion fails, the response is bad-request and the batch is rolled
\* back, at every record position.
C4_ConversionFailureIsBadRequest ==
    \A r \in Reqs :
        LET q == req[r] IN
        Done(q) =>
            \A k \in 1..Len(q.events) :
                /\ k <= q.i
                /\ ConversionFails(TheSchema.tables[q.events[k]["_t"].s], q.events[k])
                => /\ k = q.i
                   /\ q.status = "BadRequest"
                   /\ store = q.snap

PassedChecks(q) ==
    /\ KnownApp(q) /\ SecretRight(q)
    /\ \A k \in 1..Len(q.events) : ~Offending(AppOf(q), q.events[k])

\* C13: a request holds at most one pooled connection, acquired once after
\* its checks and held until it completes; on completion, on success and on
\* every failure path alike, the connection is back in the pool, so that
\* with no request in progress no connection is checked out; a request that
\* passed its checks and got no connection ends as internal error.
C13_ConnectionPerRequest ==
    /\ pool = Cardinality({r \in Reqs : req[r].conn})
    /\ (\A r \in Reqs : req[r].pc \in {"idle", "done"}) => pool = 0
    /\ \A r \in Reqs :
          LET q == req[r] IN
          /\ Count(q.log, "get") <= 1
          /\ q.conn <=> (Count(q.log, "get") = 1 /\ Count(q.log, "release") = 0)
          /\ q.pc \in {"connected", "loop"} => q.conn
          /\ Count(q.log, "begin") + Count(q.log, "insert") + Count(q.log, "commit") > 0
                => q.log[1] = "get"
          /\ Done(q) => /\ ~q.conn
                        /\ Count(q.log, "release") = Count(q.log, "get")
                        /\ PassedChecks(q) => Count(q.log, "get") = 1
                                               \/ q.status = "InternalServerError"
                        /\ Count(q.log, "get") = 1
                              => q.log[Len(q.log)] = "release"

\* Two requests have ended on different failure paths, a panic during
\* conversion after an INSERT and a failed transaction start, and the pool
\* is whole.
C13_Witness ==
    /\ pool = 0
    /\ Done(req[1]) /\ req[1].status = "panic"
    /\ req[1].log = <<"get", "begin", "insert", "release">>
    /\ Done(req[2]) /\ req[2].status = "InternalServerError"
    /\ req[2].log = <<"get", "release">>

\* The rows an INSERT for this record can write.
RowsOf(event) ==
    LET table == TheSchema.tables[event["_t"].s]
    IN { Row(table.name, o.values) :
           o \in {c \in convert_columns(table.columns, event, 1, <<>>) : c.tag = "values"} }
\* The statements a request has run so far are exactly positions 3.. of its
\* log, the commit comes after the statement of the last record.
StatementsInOrder(q) ==
    \A k \in 1..Len(q.log) :
        /\ q.log[k] = "insert"
              => /\ 3 <= k /\ k <= 2 + Len(q.events)
                 /\ q.log[2] = "begin"
                 /\ \A j \in 3..k : q.log[j] = "insert"
        /\ q.log[k] = "commit"
              => /\ k = Len(q.events) + 3
                 /\ \A j \in 3..(k - 1) : q.log[j] = "insert"

\* C14: the statements of a batch run in record order: when the loop is at
\* record i the statements of records 1..i-1, one each, have succeeded and
\* none for a later record has run; a request that failed at record i ran
\* no statement for any later record; the commit follows the statement of
\* the last record.
C14_StatementsInRecordOrder ==
    \A r \in Reqs :
        LET q == req[r] IN
        /\ StatementsInOrder(q)
        /\ q.i >= 1 => Count(q.log, "insert") = q.i - 1
        /\ q.pc = "loop"
              => /\ Len(q.trans) = q.i - 1
                 /\ \A k \in 1..Len(q.trans) : q.trans[k] \in RowsOf(q.events[k])
        /\ Done(q) /\ q.status # "Ok"
              => Count(q.log, "commit") = 0 /\ Count(q.log, "insert") <= Len(q.events)
        /\ Done(q) /\ q.status = "Ok"
              => /\ Count(q.log, "insert") = Len(q.events)
                 /\ \A k \in 1..Len(q.events) :
                       store[Len(q.snap) + k] \in RowsOf(q.events[k])

\* A batch of three has failed at its third record after its first two
\* records wrote different rows.
C14_Witness ==
    \E r \in Reqs :
        LET q == req[r] IN
        /\ Done(q) /\ q.status = "BadRequest" /\ q.i = 3 /\ Len(q.events) = 3
        /\ q.log = <<"get", "begin", "insert", "insert", "release">>
        /\ RowsOf(q.events[1]) \cap RowsOf(q.events[2]) = {}

NoRepeat(names) == \A i, j \in 1..Len(names) : i # j => names[i] # names[j]

\* C15: in every Schema that Schema::from_yaml returns no table has two
\* columns of one name, so neither the column list of the CREATE statement
\* nor that of the INSERT statement repeats a name.
C15_ColumnNamesUnique ==
    loaded.tag = "Ok" =>
        \A t \in DOMAIN loaded.schema.tables :
            LET table == loaded.schema.tables[t] IN
            /\ NoRepeat([i \in 1..Len(table.columns) |-> table.columns[i].name])
            /\ NoRepeat(insert_query(table).columns)
            /\ NoRepeat([i \in 1..Len(table.columns) |->
                            creation_query(table).columns[i].ident])

\* The step is the successful commit of request r: the committed rows gain
\* the rows of r's whole batch, one per record in order, and nothing else.
CommitsWholeBatch(r) ==
    /\ req[r].pc = "loop" /\ req'[r].pc = "done" /\ req'[r].status = "Ok"
    /\ Len(req[r].trans) = Len(req[r].events)
    /\ \A k \in 1..Len(req[r].events) : req[r].trans[k] \in RowsOf(req[r].events[k])
    /\ store' = store \o req[r].trans
EndsInFailure(r) ==
    req[r].pc # "done" /\ req'[r].pc = "done" /\ req'[r].status # "Ok"

\* C16: under every interleaving of requests, the committed rows change
\* only by the successful commit of one request, which adds the rows of its
\* whole batch; a request that fails or is rolled back neither adds nor
\* removes a committed row, and an INSERT inside a transaction changes no
\* committed row.
C16_ConcurrentBatchesIsolated ==
    [][ /\ store' # store => \E r \in Reqs : CommitsWholeBatch(r)
        /\ \A r \in Reqs : EndsInFailure(r) => store' = store
        /\ \A r \in Reqs : Len(req'[r].trans) > Len(req[r].trans) => store' = store ]_vars

\* Request 1 has committed its batch of two while request 2, which arrived
\* before that commit, holds an uncommitted row in its own transaction.
C16_Witness ==
    /\ Done(req[1]) /\ req[1].status = "Ok" /\ req[1].snap = <<>>
    /\ req[2].pc = "loop" /\ Len(req[2].trans) = 1 /\ req[2].snap = <<>>
    /\ Len(store) = 2

\* C17: against any Schema a successful load returned, a request that has
\* passed the secret check and the whole-batch check names, in every
\* record, a table of the Schema: the insertion loop's table lookup never
\* fails.
C17_TableLookupNeverFails ==
    \A r \in Reqs :
        LET q == req[r] IN
        q.pc \in {"checked", "connected", "loop"} =>
            \A k \in 1..Len(q.events) :
                /\ q.events[k]["_t"].k = "string"
                /\ q.events[k]["_t"].s \in DOMAIN ServedSchema.tables

\* The loop has resolved the first record's table and stands at the second,
\* which names another table of the loaded Schema.
C17_Witness ==
    \E r \in Reqs :
        LET q == req[r] IN
        /\ loaded.tag = "Ok"
        /\ q.pc = "loop" /\ q.i = 2 /\ Len(q.events) = 2
        /\ Len(q.trans) = 1
        /\ q.events[1]["_t"].s # q.events[2]["_t"].s
        /\ q.events[2]["_t"].s \in DOMAIN loaded.schema.tables

====
